---- MODULE Spec2Model ----
(***************************************************************************)
(* Model of the engine-schematic parser of 2023/day-3 (src/lib.rs):        *)
(* SymbolMap (a row-major boolean grid over the trimmed input lines and    *)
(* its queries) and Schematic (the scan for digit runs and their           *)
(* classification against the SymbolMap).                                  *)
(*                                                                         *)
(* Text is a sequence of characters, each character a string.  Positions   *)
(* and rows are 0-based as in the source.  A u32 is kept as two 16-bit     *)
(* limbs [hi, lo] so that its full width (2^32) is modelled exactly.       *)
(***************************************************************************)
EXTENDS Integers, Sequences, FiniteSets, TLC

VARIABLES
    s,            \* the input text handed to from_str
    pc,           \* position of the running operation
    symbol_map,   \* the SymbolMap built from s (NoMap before / on failure)
    scan_lines,   \* the trimmed lines the 'line loop of Schematic::from_str goes over
    line_no,      \* index of the line the outer loop is at
    start_pos,    \* the cursor of the inner loop
    iters,        \* inner-loop iterations begun on the current line
    valid,        \* local Vec `valid` of Schematic::from_str
    invalid,      \* local Vec `invalid` of Schematic::from_str
    result,       \* what from_str returned
    q             \* the last query made on the constructed value, and its result

vars == <<s, pc, symbol_map, scan_lines, line_no, start_pos, iters, valid, invalid, result, q>>

---------------------------------------------------------------------------
(* Bounds of the model *)

\* Greatest number of chunks an input of the Schematic specification is made of.
MaxLen == 5

\* Greatest number of characters of an input of the SymbolMap specification.
MapMaxLen == 5

\* Greatest number of characters of a grid text of the range-query specification.
RangeMaxLen == 5

\* Greatest number of chunks of a text of the specification with fairness.
FairMaxLen == 4

---------------------------------------------------------------------------
(* Characters *)

NonAsciiChar == "U+00E9"

DigitChars == <<"0", "1", "2", "3", "4", "5", "6", "7", "8", "9">>

\* u8::is_ascii_digit / char::is_ascii_digit
is_ascii_digit(c) == \E i \in 1..10 : DigitChars[i] = c

DigitVal(c) == (CHOOSE i \in 1..10 : DigitChars[i] = c) - 1

\* char::is_whitespace restricted to ASCII (what str::trim removes)
is_whitespace(c) == c \in {" ", "\t", "\n", "\r", "\f"}

\* str::is_ascii
is_ascii(str) == \A i \in 1..Len(str) : str[i] # NonAsciiChar

---------------------------------------------------------------------------
(* Strings *)

\* 0-based half-open slice  str[a..b]
Slice(str, a, b) == SubSeq(str, a + 1, b)

\* Iterator::position: 0-based offset of the first digit (-1 for None)
PositionDigit(str) ==
    IF \E i \in 1..Len(str) : is_ascii_digit(str[i])
    THEN (CHOOSE i \in 1..Len(str) :
            /\ is_ascii_digit(str[i])
            /\ \A j \in 1..(i - 1) : ~is_ascii_digit(str[j])) - 1
    ELSE -1

\* Iterator::position: 0-based offset of the first non-digit (-1 for None)
PositionNonDigit(str) ==
    IF \E i \in 1..Len(str) : ~is_ascii_digit(str[i])
    THEN (CHOOSE i \in 1..Len(str) :
            /\ ~is_ascii_digit(str[i])
            /\ \A j \in 1..(i - 1) : is_ascii_digit(str[j])) - 1
    ELSE -1

\* A line of str::lines: the piece str[from..to] (1-based, inclusive) without
\* the "\r" of a "\r\n" line ending
LineOf(str, from, to, ended) ==
    IF ended /\ from <= to /\ str[to] = "\r" THEN SubSeq(str, from, to - 1)
    ELSE SubSeq(str, from, to)

\* str::lines from character i on, the current line having begun at `from`
RECURSIVE LinesFrom(_, _, _, _)
LinesFrom(str, i, from, acc) ==
    IF i > Len(str)
    THEN IF from <= Len(str) THEN Append(acc, LineOf(str, from, Len(str), FALSE)) ELSE acc
    ELSE IF str[i] = "\n"
    THEN LinesFrom(str, i + 1, i + 1, Append(acc, LineOf(str, from, i - 1, TRUE)))
    ELSE LinesFrom(str, i + 1, from, acc)

\* str::lines: the text split after each "\n", each piece without its line
\* ending ("\n", or "\r\n"); a text that ends in "\n" has no empty last line
Lines(str) == LinesFrom(str, 1, 1, <<>>)

\* str::trim: the text between its first and its last non-whitespace character
trim(str) ==
    IF \A i \in 1..Len(str) : is_whitespace(str[i]) THEN <<>>
    ELSE SubSeq(str,
                CHOOSE i \in 1..Len(str) :
                    /\ ~is_whitespace(str[i])
                    /\ \A j \in 1..(i - 1) : is_whitespace(str[j]),
                CHOOSE i \in 1..Len(str) :
                    /\ ~is_whitespace(str[i])
                    /\ \A j \in (i + 1)..Len(str) : is_whitespace(str[j]))

\* s.lines().map(|l| l.trim())
TrimmedLines(str) ==
    CHOOSE r \in {[i \in 1..Len(ls) |-> trim(ls[i])] : ls \in {Lines(str)}} : TRUE

---------------------------------------------------------------------------
(* u32 arithmetic on two 16-bit limbs *)

Limb == 2^16

U32(hi, lo) == [hi |-> hi, lo |-> lo]

U32Zero == U32(0, 0)

\* U32MulAdd in wrapping arithmetic, its overflow unnoticed
U32MulAdd_Wrapping(r, d) ==
    LET lo == r.lo * 10 + d
        hi == r.hi * 10 + (lo \div Limb)
    IN [ovf |-> FALSE, v |-> U32(hi % Limb, lo % Limb)]

\* checked  r * 10 + d  of u32::from_str
U32MulAdd(r, d) ==
    LET lo == r.lo * 10 + d
        hi == r.hi * 10 + (lo \div Limb)
    IN [ovf |-> hi >= Limb, v |-> U32(hi % Limb, lo % Limb)]

\* sum + part.value  in u32
U32Add(a, b) ==
    LET lo == a.lo + b.lo
        hi == a.hi + b.hi + (lo \div Limb)
    IN [ovf |-> hi >= Limb, v |-> U32(hi % Limb, lo % Limb)]

\* u32::from_str on a non-empty digit text: Err on overflow of u32
RECURSIVE U32FromStrAcc(_, _)
U32FromStrAcc(digits, acc) ==
    IF Len(digits) = 0 THEN [ok |-> TRUE, v |-> acc]
    ELSE IF ~is_ascii_digit(digits[1]) THEN [ok |-> FALSE, v |-> U32Zero]
    ELSE CHOOSE r \in {IF m.ovf THEN [ok |-> FALSE, v |-> U32Zero]
                       ELSE U32FromStrAcc(Tail(digits), m.v) :
                       m \in {U32MulAdd(acc, DigitVal(digits[1]))}} : TRUE

U32FromStr(digits) ==
    IF Len(digits) = 0 THEN [ok |-> FALSE, v |-> U32Zero]
    ELSE U32FromStrAcc(digits, U32Zero)

---------------------------------------------------------------------------
(* Errors *)

NotAscii == [kind |-> "NotAscii"]
InputEmpty == [kind |-> "InputEmpty"]
LineError(n, msg) == [kind |-> "Line", line |-> n, msg |-> msg]
InvalidAddressError(x, y) == [kind |-> "InvalidAddress", x |-> x, y |-> y]

---------------------------------------------------------------------------
(* SymbolMap *)

NoMap == [ok |-> FALSE, err |-> [kind |-> "None"]]

\* predicate, with "." taken for a symbol
predicate_DotIsSymbol(c) == ~is_ascii_digit(c)

\* the closure `predicate` of SymbolMap::from_str
predicate(c) == ~is_ascii_digit(c) /\ c # "."

\* the loop of SymbolMap::from_str over lines k.. (1-based k), map built so far
RECURSIVE SymbolMapLoop(_, _, _, _)
SymbolMapLoop(lines, k, line_length, map) ==
    IF k > Len(lines)
    THEN [ok |-> TRUE, num_lines |-> Len(lines), line_length |-> line_length,
          map |-> map]
    ELSE IF Len(lines[k]) # line_length
    THEN [ok |-> FALSE, err |-> LineError(k - 1, "Line length mismatch")]
    ELSE SymbolMapLoop(lines, k + 1, line_length,
                       map \o [i \in 1..Len(lines[k]) |-> predicate(lines[k][i])])

\* SymbolMapFromStr on the lines as they are, untrimmed
SymbolMapFromStr_NoTrim(str) ==
    IF ~is_ascii(str) THEN [ok |-> FALSE, err |-> NotAscii]
    ELSE CHOOSE r \in {IF Len(lines) = 0 THEN [ok |-> FALSE, err |-> InputEmpty]
                       ELSE SymbolMapLoop(lines, 1, Len(lines[1]), <<>>) :
                       lines \in {Lines(str)}} : TRUE

\* SymbolMap::from_str.  (The "Input line too long" return needs a first line of
\* isize::MAX bytes and is beyond every text considered here.)
SymbolMapFromStr(str) ==
    IF ~is_ascii(str) THEN [ok |-> FALSE, err |-> NotAscii]
    ELSE CHOOSE r \in {IF Len(lines) = 0 THEN [ok |-> FALSE, err |-> InputEmpty]
                       ELSE SymbolMapLoop(lines, 1, Len(lines[1]), <<>>) :
                       lines \in {TrimmedLines(str)}} : TRUE

\* Result of a call: a returned value, or a panic (abort) of the call
Ret(v) == [panic |-> FALSE, ret |-> v]
PanicWith(v) == [panic |-> TRUE, ret |-> v]
Panic == PanicWith(FALSE)

\* SymbolMap::is_symbol
is_symbol(m, x, y) ==
    IF x >= m.line_length \/ y >= m.num_lines
    THEN [ok |-> FALSE, err |-> InvalidAddressError(x, y), v |-> FALSE]
    ELSE [ok |-> TRUE, err |-> [kind |-> "None"], v |-> m.map[y * m.line_length + x + 1]]

\* A column range (RangeBounds<isize>): each bound Included, Excluded or Unbounded
Range(sk, sv, ek, ev) == [sk |-> sk, sv |-> sv, ek |-> ek, ev |-> ev]

Max(a, b) == IF a >= b THEN a ELSE b
Min(a, b) == IF a <= b THEN a ELSE b

\* `start` of contains_symbol
ResolveStart(columns) ==
    CASE columns.sk = "Included" -> Max(columns.sv, 0)
      [] columns.sk = "Excluded" -> Max(columns.sv + 1, 0)
      [] OTHER -> 0

\* `end` of contains_symbol: the values the builds can produce.  With an
\* unbounded end, `self.line_length - 1` is computed in usize: for line_length 0
\* it aborts where overflow is checked and wraps to usize::MAX (-1 as isize)
\* where it is not.
ResolveEnd(m, columns) ==
    CASE columns.ek = "Included" -> {Ret(Min(columns.ev, m.line_length - 1))}
      [] columns.ek = "Excluded" ->
            {Ret(Min(Max(columns.ev - 1, 0), m.line_length - 1))}
      [] OTHER -> IF m.line_length = 0 THEN {Panic, Ret(-1)}
                  ELSE {Ret(m.line_length - 1)}

\* SymbolMap::contains_symbol, from the resolved `end` on
ContainsSymbolFrom(m, start, end, row) ==
    IF start > end THEN FALSE
    ELSE IF end >= m.line_length THEN FALSE
    ELSE LET line_start == row * m.line_length
             line_end == line_start + m.line_length
             line == Slice(m.map, line_start, line_end)
             segment == Slice(line, start, end + 1)
         IN \E i \in 1..Len(segment) : segment[i]

\* SymbolMap::contains_symbol: the set of its possible results
contains_symbol(m, columns, row) ==
    IF row < 0 \/ row >= m.num_lines THEN {Ret(FALSE)}
    ELSE {IF e.panic THEN Panic
          ELSE Ret(ContainsSymbolFrom(m, ResolveStart(columns), e.ret, row)) :
          e \in ResolveEnd(m, columns)}

\* is_next_to_symbol without the look at the row below
is_next_to_symbol_NoBottom(m, columns, row) ==
    {IF top.panic \/ left.panic \/ right.panic THEN Panic
     ELSE Ret(top.ret \/ left.ret \/ right.ret) :
     top \in contains_symbol(m, columns, row - 1),
     left \in contains_symbol(m, columns, row),
     right \in contains_symbol(m, columns, row)}

\* SymbolMap::is_next_to_symbol: the set of its possible results
is_next_to_symbol(m, columns, row) ==
    {IF top.panic \/ bottom.panic \/ left.panic \/ right.panic THEN Panic
     ELSE Ret(top.ret \/ bottom.ret \/ left.ret \/ right.ret) :
     top \in contains_symbol(m, columns, row - 1),
     bottom \in contains_symbol(m, columns, row + 1),
     left \in contains_symbol(m, columns, row),
     right \in contains_symbol(m, columns, row)}

---------------------------------------------------------------------------
(* Schematic *)

PartNumber(row, pos, len, value) ==
    [row |-> row, pos |-> pos, len |-> len, value |-> value]

NoResult == [tag |-> "None"]
Ok(v, i) == [tag |-> "Ok", valid |-> v, invalid |-> i]
Err(e) == [tag |-> "Err", err |-> e]

NoQuery == [op |-> "none"]

\* RunLength that ends every run after its first digit
RunLength_OneDigit(line, first_digit) == 1

\* RunLength with unwrap_or(line.len()): the offset of `first_digit` forgotten
RunLength_WholeLine(line, first_digit) ==
    LET p == PositionNonDigit(Slice(line, first_digit, Len(line)))
    IN IF p = -1 THEN Len(line) ELSE p

\* unwrap_or(line.len() - first_digit) of the scan for the end of a run
RunLength(line, first_digit) ==
    LET p == PositionNonDigit(Slice(line, first_digit, Len(line)))
    IN IF p = -1 THEN Len(line) - first_digit ELSE p

\* ScanRun that leaves the cursor at the first digit of the run
ScanRun_CursorAtRunStart(m, line, row, first_digit, first_non_digit) ==
    {IF ~value.ok
     THEN [kind |-> "err", err |-> LineError(row, "Failed to parse part number")]
     ELSE [kind |-> "part", next_to_symbol |-> n.ret,
           start_pos |-> first_digit,
           part |-> PartNumber(row, first_digit,
                               Len(Slice(line, first_digit, first_non_digit)),
                               value.v)] :
     n \in is_next_to_symbol(m, Range("Included", first_digit - 1,
                                      "Included", first_non_digit), row),
     value \in {U32FromStr(Slice(line, first_digit, first_non_digit))}}

\* One iteration of the `while start_pos < line_len` loop body, from the found
\* run on: the set of its possible outcomes.  A failing debug_assert! aborts
\* the builds that keep it (dbg).
ScanRun(m, line, row, first_digit, first_non_digit) ==
    IF first_non_digit > Len(line) \/ first_digit > first_non_digit
    THEN {[kind |-> "panic"]}
    ELSE {IF first_non_digit > m.line_length /\ dbg THEN [kind |-> "panic"]
          ELSE IF n.panic THEN [kind |-> "panic"]
          ELSE IF ~value.ok
          THEN [kind |-> "err",
                err |-> LineError(row, "Failed to parse part number")]
          ELSE [kind |-> "part", next_to_symbol |-> n.ret,
                start_pos |-> first_non_digit,
                part |-> PartNumber(row, first_digit,
                                    Len(Slice(line, first_digit, first_non_digit)),
                                    value.v)] :
          n \in is_next_to_symbol(m, Range("Included", first_digit - 1,
                                           "Included", first_non_digit), row),
          value \in {U32FromStr(Slice(line, first_digit, first_non_digit))},
          dbg \in BOOLEAN}

\* One iteration of the `while start_pos < line_len` loop body on `line`:
\* the set of its possible outcomes.
ScanIteration(m, line, row, pos) ==
    IF pos > Len(line) THEN {[kind |-> "panic"]}
    ELSE UNION {IF d = -1 THEN {[kind |-> "continue_line"]}
                ELSE UNION {ScanRun(m, line, row, first_digit, first_non_digit) :
                            first_digit \in {pos + d},
                            first_non_digit \in {pos + d + RunLength(line, pos + d)}} :
                d \in {PositionDigit(Slice(line, pos, Len(line)))}}

\* Schematic::sum_valid_parts: the fold in u32.  An overflowing addition aborts
\* where overflow is checked and wraps where it is not.
RECURSIVE SumFold(_, _, _)
SumFold(parts, k, sum) ==
    IF k > Len(parts) THEN {Ret(sum)}
    ELSE LET a == U32Add(sum, parts[k].value)
         IN IF a.ovf THEN {PanicWith(U32Zero)} \cup SumFold(parts, k + 1, a.v)
            ELSE SumFold(parts, k + 1, a.v)

sum_valid_parts(self) == SumFold(self.valid, 1, U32Zero)

\* Schematic::num_valid
num_valid(self) == Len(self.valid)

---------------------------------------------------------------------------
(* Schematic::from_str, step by step, and the queries on its result.  The   *)
(* queries are pure: one query per behaviour shows all they can do.          *)

\* The texts given to Schematic::from_str: up to MaxLen chunks, each one
\* character or the ten digits of u32::MAX.
U32MaxDigits == <<"4", "2", "9", "4", "9", "6", "7", "2", "9", "5">>

Chunks == {<<"0">>, <<"1">>, <<".">>, <<"*">>, <<" ">>, <<"\n">>, <<NonAsciiChar>>,
           U32MaxDigits}

RECURSIVE Texts(_, _)
Texts(chunks, n) ==
    IF n = 0 THEN {<<>>}
    ELSE LET shorter == Texts(chunks, n - 1)
         IN shorter \cup {t \o c : t \in shorter, c \in chunks}

Init ==
    /\ s \in Texts(Chunks, MaxLen)
    /\ pc = "start"
    /\ symbol_map = NoMap
    /\ scan_lines = <<>>
    /\ line_no = 0
    /\ start_pos = 0
    /\ iters = 0
    /\ valid = <<>>
    /\ invalid = <<>>
    /\ result = NoResult
    /\ q = NoQuery

\* let symbol_map = SymbolMap::from_str(s)?;  and the set-up of the locals
Begin ==
    /\ pc = "start"
    /\ \E m \in {SymbolMapFromStr(s)} :
          IF m.ok
          THEN /\ symbol_map' = m
               /\ scan_lines' = TrimmedLines(s)
               /\ pc' = "line"
               /\ result' = result
          ELSE /\ symbol_map' = NoMap
               /\ scan_lines' = <<>>
               /\ pc' = "done"
               /\ result' = Err(m.err)
    /\ UNCHANGED <<s, line_no, start_pos, iters, valid, invalid, q>>

\* The head of the 'line loop: the next line, or Ok(Self { valid, invalid })
NextLine ==
    /\ pc = "line"
    /\ LET lines == scan_lines
       IN IF line_no >= Len(lines)
          THEN /\ pc' = "done"
               /\ result' = Ok(valid, invalid)
               /\ valid' = <<>>
               /\ invalid' = <<>>
               /\ UNCHANGED <<line_no, start_pos, iters>>
          ELSE IF Len(lines[line_no + 1]) = 0
          THEN /\ line_no' = line_no + 1
               /\ UNCHANGED <<pc, result, valid, invalid, start_pos, iters>>
          ELSE /\ pc' = "scan"
               /\ start_pos' = 0
               /\ iters' = 0
               /\ UNCHANGED <<line_no, result, valid, invalid>>
    /\ UNCHANGED <<s, symbol_map, scan_lines, q>>

\* The `while start_pos < line_len` loop: its test and one iteration of its body
ScanStep ==
    /\ pc = "scan"
    /\ IF ~(start_pos < symbol_map.line_length)
       THEN /\ pc' = "line"
            /\ line_no' = line_no + 1
            /\ UNCHANGED <<start_pos, iters, valid, invalid, result>>
       ELSE \E line \in {scan_lines[line_no + 1]} :
            \E o \in ScanIteration(symbol_map, line, line_no, start_pos) :
            /\ iters' = iters + 1
            /\ CASE o.kind = "continue_line" ->
                      /\ pc' = "line"
                      /\ line_no' = line_no + 1
                      /\ UNCHANGED <<start_pos, valid, invalid, result>>
                 [] o.kind = "part" ->
                      /\ start_pos' = o.start_pos
                      /\ valid' = IF o.next_to_symbol THEN Append(valid, o.part)
                                  ELSE valid
                      /\ invalid' = IF o.next_to_symbol THEN invalid
                                    ELSE Append(invalid, o.part)
                      /\ UNCHANGED <<pc, line_no, result>>
                 [] o.kind = "err" ->
                      /\ pc' = "done"
                      /\ result' = Err(o.err)
                      /\ valid' = <<>>
                      /\ invalid' = <<>>
                      /\ UNCHANGED <<line_no, start_pos>>
                 [] OTHER ->
                      /\ pc' = "panic"
                      /\ valid' = <<>>
                      /\ invalid' = <<>>
                      /\ UNCHANGED <<line_no, start_pos, result>>
    /\ UNCHANGED <<s, symbol_map, scan_lines, q>>

\* schematic.sum_valid_parts()
SumValidParts ==
    /\ pc = "done"
    /\ result.tag = "Ok"
    /\ q = NoQuery
    /\ \E r \in sum_valid_parts(result) :
          q' = [op |-> "sum_valid_parts", panic |-> r.panic,
                ret |-> IF r.panic THEN U32Zero ELSE r.ret]
    /\ UNCHANGED <<s, pc, symbol_map, scan_lines, line_no, start_pos, iters, valid, invalid, result>>

\* schematic.num_valid()
NumValid ==
    /\ pc = "done"
    /\ result.tag = "Ok"
    /\ q = NoQuery
    /\ q' = [op |-> "num_valid", panic |-> FALSE, ret |-> num_valid(result)]
    /\ UNCHANGED <<s, pc, symbol_map, scan_lines, line_no, start_pos, iters, valid, invalid, result>>

Next == Begin \/ NextLine \/ ScanStep \/ SumValidParts \/ NumValid

Spec == Init /\ [][Next]_vars

---------------------------------------------------------------------------
(* SymbolMap::from_str on its own, and is_symbol on its result *)

MapChunks == {<<"1">>, <<".">>, <<"*">>, <<" ">>, <<"\n">>, <<NonAsciiChar>>}

MapInit ==
    /\ s \in Texts(MapChunks, MapMaxLen)
    /\ pc = "map_start"
    /\ symbol_map = NoMap
    /\ scan_lines = <<>>
    /\ line_no = 0
    /\ start_pos = 0
    /\ iters = 0
    /\ valid = <<>>
    /\ invalid = <<>>
    /\ result = NoResult
    /\ q = NoQuery

\* SymbolMap::from_str(s)
MapParse ==
    /\ pc = "map_start"
    /\ symbol_map' = SymbolMapFromStr(s)
    /\ pc' = "map_done"
    /\ UNCHANGED <<s, scan_lines, line_no, start_pos, iters, valid, invalid, result, q>>

\* map.is_symbol(x, y) for unsigned x, y up to one past the grid's edge and beyond
IsSymbolCall ==
    /\ pc = "map_done"
    /\ symbol_map.ok
    /\ q = NoQuery
    /\ \E x \in 0..(symbol_map.line_length + 1), y \in 0..(symbol_map.num_lines + 1) :
          q' = [op |-> "is_symbol", x |-> x, y |-> y, r |-> is_symbol(symbol_map, x, y)]
    /\ UNCHANGED <<s, pc, symbol_map, scan_lines, line_no, start_pos, iters, valid, invalid, result>>

MapNext == MapParse \/ IsSymbolCall

MapSpec == MapInit /\ [][MapNext]_vars

---------------------------------------------------------------------------
(* contains_symbol and is_next_to_symbol on a constructed SymbolMap *)

RangeChunks == {<<".">>, <<"*">>, <<"\n">>}

BoundKinds == {"Included", "Excluded", "Unbounded"}

\* Column bounds from two before the first column to two past the last one
Columns(m) == (0 - 2)..(m.line_length + 1)

\* Every range over Columns(m); an unbounded side carries no value (0)
Ranges(m) ==
    {Range(sk, IF sk = "Unbounded" THEN 0 ELSE sv,
           ek, IF ek = "Unbounded" THEN 0 ELSE ev) :
     sk \in BoundKinds, sv \in Columns(m), ek \in BoundKinds, ev \in Columns(m)}

Rows(m) == (0 - 2)..(m.num_lines + 1)

RangeInit ==
    /\ s \in {t \in Texts(RangeChunks, RangeMaxLen) : SymbolMapFromStr(t).ok}
    /\ pc = "map_done"
    /\ symbol_map = SymbolMapFromStr(s)
    /\ scan_lines = <<>>
    /\ line_no = 0
    /\ start_pos = 0
    /\ iters = 0
    /\ valid = <<>>
    /\ invalid = <<>>
    /\ result = NoResult
    /\ q = NoQuery

\* map.contains_symbol(columns, row)
ContainsSymbolCall ==
    /\ pc = "map_done"
    /\ symbol_map.ok
    /\ q = NoQuery
    /\ \E columns \in Ranges(symbol_map), row \in Rows(symbol_map) :
          \E r \in contains_symbol(symbol_map, columns, row) :
             q' = [op |-> "contains_symbol", columns |-> columns, row |-> row,
                   panic |-> r.panic, ret |-> r.ret]
    /\ UNCHANGED <<s, pc, symbol_map, scan_lines, line_no, start_pos, iters, valid, invalid, result>>

\* map.is_next_to_symbol(a..=b, row)
IsNextToSymbolCall ==
    /\ pc = "map_done"
    /\ symbol_map.ok
    /\ q = NoQuery
    /\ \E a \in Columns(symbol_map), b \in Columns(symbol_map), row \in Rows(symbol_map) :
          \E r \in is_next_to_symbol(symbol_map, Range("Included", a, "Included", b), row) :
             q' = [op |-> "is_next_to_symbol",
                   columns |-> Range("Included", a, "Included", b), row |-> row,
                   panic |-> r.panic, ret |-> r.ret]
    /\ UNCHANGED <<s, pc, symbol_map, scan_lines, line_no, start_pos, iters, valid, invalid, result>>

RangeNext == ContainsSymbolCall \/ IsNextToSymbolCall

RangeSpec == RangeInit /\ [][RangeNext]_vars

---------------------------------------------------------------------------
(* Schematic::from_str called on a text its caller puts together, under the  *)
(* scheduling of a sequential program: a call that can take a step takes it. *)

FairInit ==
    /\ s = <<>>
    /\ pc = "input"
    /\ symbol_map = NoMap
    /\ scan_lines = <<>>
    /\ line_no = 0
    /\ start_pos = 0
    /\ iters = 0
    /\ valid = <<>>
    /\ invalid = <<>>
    /\ result = NoResult
    /\ q = NoQuery

\* str is made of at most n chunks
RECURSIVE InTexts(_, _, _)
InTexts(chunks, n, str) ==
    \/ Len(str) = 0
    \/ /\ n > 0
       /\ \E c \in chunks :
             /\ Len(c) <= Len(str)
             /\ SubSeq(str, 1, Len(c)) = c
             /\ InTexts(chunks, n - 1, SubSeq(str, Len(c) + 1, Len(str)))

\* The caller extends the text
Feed ==
    /\ pc = "input"
    /\ InTexts(Chunks, FairMaxLen - 1, s)
    /\ \E c \in Chunks : s' = s \o c
    /\ UNCHANGED <<pc, symbol_map, scan_lines, line_no, start_pos, iters, valid, invalid, result, q>>

\* The caller calls Schematic::from_str(s)
Call ==
    /\ pc = "input"
    /\ pc' = "start"
    /\ UNCHANGED <<s, symbol_map, scan_lines, line_no, start_pos, iters, valid, invalid, result, q>>

Step == Begin \/ NextLine \/ ScanStep

FairNext == Feed \/ Call \/ Begin \/ NextLine \/ ScanStep

FairSpec == FairInit /\ [][FairNext]_vars /\ WF_vars(Step)

---------------------------------------------------------------------------
(* Reference notions, stated on the trimmed lines of the input text *)

\* Column x, row y is a cell of the grid
InGrid(lines, x, y) ==
    /\ 0 <= y /\ y < Len(lines)
    /\ 0 <= x /\ x < Len(lines[y + 1])

RefIsDigit(lines, x, y) == lines[y + 1][x + 1] \in {DigitChars[i] : i \in 1..10}

RefIsSymbol(lines, x, y) == ~RefIsDigit(lines, x, y) /\ lines[y + 1][x + 1] # "."

\* The maximal runs of consecutive digits: a run starts at a digit that has no
\* digit before it and goes on as far as digits follow
RefRuns(lines) ==
    {[row |-> c[2], pos |-> c[1],
      len |-> CHOOSE n \in 1..(Len(lines[c[2] + 1]) - c[1]) :
                 /\ \A x \in c[1]..(c[1] + n - 1) : RefIsDigit(lines, x, c[2])
                 /\ InGrid(lines, c[1] + n, c[2]) => ~RefIsDigit(lines, c[1] + n, c[2])] :
     c \in {d \in UNION {{<<x, y>> : x \in 0..(Len(lines[y + 1]) - 1)} :
                         y \in 0..(Len(lines) - 1)} :
               /\ RefIsDigit(lines, d[1], d[2])
               /\ InGrid(lines, d[1] - 1, d[2]) => ~RefIsDigit(lines, d[1] - 1, d[2])}}

\* The digit text of a run, without its leading zeros ("0" for zero)
RECURSIVE StripZeros(_)
StripZeros(digits) ==
    IF Len(digits) > 1 /\ digits[1] = "0" THEN StripZeros(Tail(digits)) ELSE digits

RefDigits(lines, r) == StripZeros(SubSeq(lines[r.row + 1], r.pos + 1, r.pos + r.len))

\* The decimal digits of a u32
RECURSIVE U32Decimal(_)
U32Decimal(v) ==
    LET low == (v.hi % 10) * Limb + v.lo
        quot == U32(v.hi \div 10, low \div 10)
        last == <<DigitChars[(low % 10) + 1]>>
    IN IF quot = U32Zero THEN last ELSE U32Decimal(quot) \o last

\* The padded bounding box of a number holds a symbol
RefAdjacent(lines, p) ==
    \E y \in (p.row - 1)..(p.row + 1), x \in (p.pos - 1)..(p.pos + p.len) :
        InGrid(lines, x, y) /\ RefIsSymbol(lines, x, y)

Parsed == pc = "done" /\ result.tag = "Ok"

Elems(seq) == {seq[i] : i \in 1..Len(seq)}

Place(p) == [row |-> p.row, pos |-> p.pos, len |-> p.len]

---------------------------------------------------------------------------
(* Claims *)

\* C1: after a successful parse every number in `valid` has a symbol in its
\* padded bounding box (rows r-1..r+1, columns pos-1..pos+len, cells that exist)
\* and no number in `invalid` has one.
C1_ValidIffAdjacent ==
    Parsed =>
        LET lines == TrimmedLines(s)
        IN /\ \A p \in Elems(result.valid) : RefAdjacent(lines, p)
           /\ \A p \in Elems(result.invalid) : ~RefAdjacent(lines, p)

\* A number ending in the last column of the last row is valid through a symbol
\* that touches it diagonally only (in the padding column of the row above).
C1_Witness ==
    /\ Parsed
    /\ LET lines == TrimmedLines(s)
       IN \E p \in Elems(result.valid) :
             /\ p.row > 0 /\ p.row = Len(lines) - 1
             /\ p.pos > 0 /\ p.pos + p.len = Len(lines[1])
             /\ \A x \in 0..(Len(lines[1]) - 1) :
                   /\ ~RefIsSymbol(lines, x, p.row)
                   /\ x >= p.pos => ~RefIsSymbol(lines, x, p.row - 1)

\* C2: after a successful parse the numbers of `valid` and `invalid` are, one to
\* one, the maximal digit runs of the trimmed lines: each run is recorded once,
\* in one of the two sequences, with its row, first column, digit count and
\* decimal value, and no two recorded numbers overlap.
C2_OneToOneRuns ==
    Parsed =>
        LET lines == TrimmedLines(s)
            all == result.valid \o result.invalid
        IN /\ {Place(p) : p \in Elems(all)} = RefRuns(lines)
           /\ Len(all) = Cardinality(RefRuns(lines))
           /\ \A p \in Elems(all) : U32Decimal(p.value) = RefDigits(lines, Place(p))
           /\ \A i, j \in 1..Len(all) :
                 (i # j /\ all[i].row = all[j].row) =>
                    \/ all[i].pos + all[i].len <= all[j].pos
                    \/ all[j].pos + all[j].len <= all[i].pos

\* Two numbers on one line, one valid and one invalid, one of them of several
\* digits.
C2_Witness ==
    /\ Parsed
    /\ \E p \in Elems(result.valid), r \in Elems(result.invalid) :
          p.row = r.row /\ (p.len >= 2 \/ r.len >= 2)

\* The exact sum of the values of a sequence of numbers, [hi, lo] with hi unbounded
RECURSIVE RefSum(_)
RefSum(parts) ==
    IF Len(parts) = 0 THEN U32Zero
    ELSE LET rest == RefSum(Tail(parts))
             lo == rest.lo + parts[1].value.lo
         IN U32(rest.hi + parts[1].value.hi + (lo \div Limb), lo % Limb)

\* C3: sum_valid_parts() returns the exact sum of the values of `valid`, with no
\* overflow, wraparound or abort, and num_valid() returns the length of `valid`.
C3_SumExact ==
    /\ (Parsed /\ q.op = "sum_valid_parts") =>
          ~q.panic /\ q.ret = RefSum(result.valid)
    /\ (Parsed /\ q.op = "num_valid") =>
          ~q.panic /\ q.ret = Len(result.valid)

LineMessages ==
    {"Input line too long", "Line length mismatch", "Failed to parse part number"}

\* C7: parsing never panics, and what it returns is exactly one of a complete
\* Schematic, NotAscii, InputEmpty or LineError(line, message); with an error
\* there is no Schematic, not even a partial one.
C7_NoPanicOneOutcome ==
    /\ pc # "panic"
    /\ pc = "done" =>
          \/ /\ result.tag = "Ok"
             /\ DOMAIN result = {"tag", "valid", "invalid"}
          \/ /\ result.tag = "Err"
             /\ DOMAIN result = {"tag", "err"}
             /\ valid = <<>> /\ invalid = <<>>
             /\ \/ result.err = NotAscii
                \/ result.err = InputEmpty
                \/ /\ result.err.kind = "Line"
                   /\ DOMAIN result.err = {"kind", "line", "msg"}
                   /\ result.err.line \in 0..(Len(Lines(s)) - 1)
                   /\ result.err.msg \in LineMessages

\* The scan got to a run that reaches the end of a line after another number
\* was recorded, and construction ended with an error.
C7_Witness ==
    /\ pc = "done"
    /\ result.tag = "Err"
    /\ result.err.kind = "Line"
    /\ result.err.msg = "Failed to parse part number"
    /\ LET lines == TrimmedLines(s)
       IN \E r \in RefRuns(lines) :
             r.row = result.err.line /\ r.pos > 0 /\ r.pos + r.len = Len(lines[1])

\* a <= b for digit texts of equal length
LexLeq(a, b) ==
    \/ a = b
    \/ \E i \in 1..Len(a) :
          /\ \A j \in 1..(i - 1) : a[j] = b[j]
          /\ \E m, n \in 1..10 : DigitChars[m] = a[i] /\ DigitChars[n] = b[i] /\ m < n

\* The decimal value of a digit text without leading zeros is at most u32::MAX
RefFitsU32(digits) ==
    \/ Len(digits) < Len(U32MaxDigits)
    \/ Len(digits) = Len(U32MaxDigits) /\ LexLeq(digits, U32MaxDigits)

\* The runs whose value exceeds u32::MAX
RefTooBig(lines) == {r \in RefRuns(lines) : ~RefFitsU32(RefDigits(lines, r))}

\* C8 as stated: once the SymbolMap is built, the conversion of a run never
\* fails, whatever the length of the run.
C8_NeverFails ==
    (pc = "done" /\ result.tag = "Err" /\ result.err.kind = "Line") =>
        result.err.msg # "Failed to parse part number"

\* C8, amended: once the SymbolMap is built, the conversion of a run fails
\* exactly when the run's decimal value exceeds u32::MAX (4294967295); runs of
\* any length whose value is at most u32::MAX (leading zeros included) convert,
\* and a greater one ends construction with
\* Line(its line, "Failed to parse part number").
C8_FailsIffExceedsU32 ==
    (pc = "done" /\ symbol_map.ok) =>
        LET big == RefTooBig(TrimmedLines(s))
        IN IF big = {} THEN result.tag = "Ok"
           ELSE result = Err(LineError(CHOOSE n \in {r.row : r \in big} :
                                          \A r \in big : n <= r.row,
                                       "Failed to parse part number"))

\* The conversion of a run of more than ten digits failed on the first line.
C8_Witness ==
    /\ pc = "done"
    /\ symbol_map.ok
    /\ result = Err(LineError(0, "Failed to parse part number"))
    /\ \E r \in RefRuns(TrimmedLines(s)) : r.len > Len(U32MaxDigits)

\* C9: a text with a blank (after trimming) line among non-blank lines of equal
\* length is parsed into a Schematic, the blank line is skipped, and the numbers
\* of the other lines are recorded with their line index and classified.
C9_BlankLineSkipped ==
    LET lines == TrimmedLines(s)
        full == {i \in 1..Len(lines) : Len(lines[i]) > 0}
    IN (/\ pc = "done"
        /\ is_ascii(s)
        /\ full # {}
        /\ \E i \in 1..Len(lines) : Len(lines[i]) = 0
        /\ \A i, j \in full : Len(lines[i]) = Len(lines[j])
        /\ RefTooBig(lines) = {}) =>
           /\ Parsed
           /\ {Place(p) : p \in Elems(result.valid \o result.invalid)} = RefRuns(lines)
           /\ \A p \in Elems(result.valid) : RefAdjacent(lines, p)
           /\ \A p \in Elems(result.invalid) : ~RefAdjacent(lines, p)

\* The numbers of a sequence are in increasing (row, pos) order
Sorted(parts) ==
    \A i, j \in 1..Len(parts) :
        i < j => \/ parts[i].row < parts[j].row
                 \/ parts[i].row = parts[j].row /\ parts[i].pos < parts[j].pos

\* C10: every iteration of the inner loop that stays on the line moves the
\* cursor strictly forward and not past the line's end, a line is left after
\* at most line_length iterations, construction returns in the end, and
\* `valid` and `invalid` are each in increasing (row, pos) order.
C10_ScanTerminates ==
    /\ [][(pc = "scan" /\ pc' = "scan") =>
             (start_pos' > start_pos /\ start_pos' <= symbol_map.line_length)]_vars
    /\ [](symbol_map.ok => iters <= symbol_map.line_length)
    /\ [](Sorted(valid) /\ Sorted(invalid))
    /\ [](Parsed => Sorted(result.valid) /\ Sorted(result.invalid))
    /\ (pc = "start") ~> (pc = "done")

\* The cursor stands at the end of a line after two runs of that line were
\* recorded.
C10_Witness ==
    /\ pc = "scan"
    /\ iters >= 2
    /\ start_pos = symbol_map.line_length
    /\ Len(valid) + Len(invalid) >= 2

\* C4 as stated: a pure-ASCII text whose lines all have the same length is
\* parsed, with num_lines the number of lines, line_length the length of each
\* line and a map of num_lines * line_length cells.
C4_EqualLinesParse ==
    LET raw == Lines(s)
    IN (/\ pc = "map_done"
        /\ is_ascii(s)
        /\ \A i, j \in 1..Len(raw) : Len(raw[i]) = Len(raw[j])) =>
           /\ symbol_map.ok
           /\ symbol_map.num_lines = Len(raw)
           /\ \A i \in 1..Len(raw) : symbol_map.line_length = Len(raw[i])
           /\ Len(symbol_map.map) = symbol_map.num_lines * symbol_map.line_length

\* C4, amended: a pure-ASCII text of at least one line whose lines all have the
\* same length once trimmed is parsed, with num_lines the number of lines,
\* line_length the length of each trimmed line and a map of
\* num_lines * line_length cells in row-major order.
C4_EqualTrimmedLinesParse ==
    LET lines == TrimmedLines(s)
    IN (/\ pc = "map_done"
        /\ is_ascii(s)
        /\ Len(lines) >= 1
        /\ \A i, j \in 1..Len(lines) : Len(lines[i]) = Len(lines[j])) =>
           /\ symbol_map.ok
           /\ symbol_map.num_lines = Len(lines)
           /\ symbol_map.line_length = Len(lines[1])
           /\ Len(symbol_map.map) = symbol_map.num_lines * symbol_map.line_length
           /\ \A y \in 0..(Len(lines) - 1), x \in 0..(Len(lines[1]) - 1) :
                 symbol_map.map[y * Len(lines[1]) + x + 1] = RefIsSymbol(lines, x, y)

\* A grid of several non-empty rows was built from lines that differ in length
\* before they are trimmed.
C4_Witness ==
    /\ pc = "map_done"
    /\ symbol_map.ok
    /\ symbol_map.num_lines >= 2
    /\ symbol_map.line_length >= 1
    /\ \E i, j \in 1..Len(Lines(s)) : Len(Lines(s)[i]) # Len(Lines(s)[j])

\* The resolved start of a column range, as the specification gives it
RefStart(columns) ==
    CASE columns.sk = "Included" -> IF columns.sv > 0 THEN columns.sv ELSE 0
      [] columns.sk = "Excluded" -> columns.sv + 1
      [] OTHER -> 0

\* The resolved end of a column range, as the specification gives it
RefEnd(m, columns) ==
    LET e == CASE columns.ek = "Included" -> columns.ev
               [] columns.ek = "Excluded" -> columns.ev - 1
               [] OTHER -> m.line_length - 1
    IN IF e > m.line_length - 1 THEN m.line_length - 1 ELSE e

RefContains(m, columns, row) ==
    /\ row >= 0
    /\ row < m.num_lines
    /\ RefStart(columns) <= RefEnd(m, columns)
    /\ \E x \in RefStart(columns)..RefEnd(m, columns) :
          x >= 0 /\ m.map[row * m.line_length + x + 1]

\* C5: contains_symbol(range, row) is the reference: false outside the rows of
\* the grid and for a range that resolves to start > end (an empty half-open
\* range such as 0..0 or ..0 among them), else whether a cell of the row in
\* the resolved columns is a symbol.
C5_ContainsSymbolReference ==
    q.op = "contains_symbol" =>
        ~q.panic /\ q.ret = RefContains(symbol_map, q.columns, q.row)

\* C6: is_symbol(x, y) fails with InvalidAddress(x, y) when x >= line_length
\* or y >= num_lines, and is otherwise whether the character at column x of
\* trimmed line y is neither a digit nor ".".
C6_IsSymbol ==
    q.op = "is_symbol" =>
        LET lines == TrimmedLines(s)
        IN IF q.x >= Len(lines[1]) \/ q.y >= Len(lines)
           THEN ~q.r.ok /\ q.r.err = InvalidAddressError(q.x, q.y)
           ELSE q.r.ok /\ q.r.v = RefIsSymbol(lines, q.x, q.y)

\* is_symbol was asked for a column of the grid in the row just past the last.
C6_Witness ==
    /\ q.op = "is_symbol"
    /\ q.y = symbol_map.num_lines
    /\ q.x < symbol_map.line_length
    /\ ~q.r.ok

====
